---- MODULE Spec2Model ----
(***************************************************************************)
(* Othello: the board engine (game.py) and the minimax search with         *)
(* alpha-beta pruning (bot.py), modelled as a state machine over a heap of *)
(* board objects.                                                          *)
(***************************************************************************)
EXTENDS Integers, Sequences, FiniteSets, TLC

(***************************************************************************)
(* Bounds of the model.                                                    *)
(***************************************************************************)
\* successful place_piece calls a caller issues on one Game
MaxMoves == 2
\* how far outside the board the coordinates handed to place_piece reach
CoordSlack == 1
\* successful place_piece calls of a driver that asks the bots
MaxSearchMoves == 2
\* the plies such a driver looks ahead of the constructed board: the pieces
\* it placed plus the depth of the bot it asks
MaxPly == 3
\* the depths of the bots that play_game is run with
MaxPlayDepth == 1
\* the finite ends of the windows _minimax is called with: -MaxWindow to
\* MaxWindow
MaxWindow == 3
\* the plies a caller of _minimax looks ahead of the constructed board: the
\* pieces it placed plus the depth it asks for
MaxWindowPly == 2

(***************************************************************************)
(* game.py: Player, Piece                                                  *)
(***************************************************************************)
BLACK == 1
WHITE == -1
NO_PIECE == 0

Player == {BLACK, WHITE}
Piece == {BLACK, NO_PIECE, WHITE}

\* Player.opponent: Player(-self.value)
opponent(player) == 0 - player

\* Piece.from_player: Piece(player.value)
from_player(player) == IF player = BLACK THEN BLACK ELSE WHITE

\* Python's None as an absent move
None == << >>

(***************************************************************************)
(* game.py: Game.  A board object is a function row -> (col -> Piece); the *)
(* heap is the sequence of the board objects allocated so far and a Game   *)
(* object holds a reference (an index into the heap) to its board.         *)
(***************************************************************************)
BOARD_SIZE == 8

DIRS == << <<-1, 0>>, <<1, 0>>, <<0, 1>>, <<0, -1>>,
           <<-1, 1>>, <<1, 1>>, <<-1, -1>>, <<1, -1>> >>

Index == 0 .. (BOARD_SIZE - 1)

\* the start layout with the two colours exchanged
new_board_swapped ==
    LET empty == [row \in Index |-> [col \in Index |-> NO_PIECE]]
    IN  [empty EXCEPT ![3][3] = WHITE, ![4][4] = WHITE,
                      ![3][4] = BLACK, ![4][3] = BLACK]

\* Game.__init__, board is None: the start layout
new_board ==
    LET empty == [row \in Index |-> [col \in Index |-> NO_PIECE]]
    IN  [empty EXCEPT ![3][3] = BLACK, ![4][4] = BLACK,
                      ![3][4] = WHITE, ![4][3] = WHITE]

\* copy.deepcopy(board): a fresh board object with the same contents
deepcopy(heap, ref) ==
    [heap |-> Append(heap, heap[ref]), ref |-> Len(heap) + 1]

\* Python's None as an absent board argument: the null reference
NoBoard == 0

\* Game.__init__(board): board is None or a reference to a board object
__init__(heap, board) ==
    IF board # NoBoard
    THEN LET c == deepcopy(heap, board)
         IN  [heap |-> c.heap, game |-> [board |-> c.ref]]
    ELSE [heap |-> Append(heap, new_board),
          game |-> [board |-> Len(heap) + 1]]

\* the value of a local variable, computed once: Only({e : v \in {value}})
\* is e with the name v bound to the value
Only(S) == CHOOSE r \in S : TRUE

\* Game.valid_coordinate
valid_coordinate(row, col) ==
    /\ 0 <= row /\ row < BOARD_SIZE
    /\ 0 <= col /\ col < BOARD_SIZE

\* Game._get_endpoints, the while loop: walk over the opponent's pieces
RECURSIVE walk(_, _, _, _, _, _, _)
walk(board, player, x, y, dx, dy, sandwiched) ==
    IF valid_coordinate(x, y) /\ board[x][y] = opponent(player)
    THEN walk(board, player, x + dx, y + dy, dx, dy, TRUE)
    ELSE [x |-> x, y |-> y, sandwiched |-> sandwiched]

\* the for loop without the test of the sandwiched flag
RECURSIVE endpoints_unsandwiched(_, _, _, _, _)
endpoints_unsandwiched(board, player, row, col, i) ==
    IF i > Len(DIRS) THEN << >>
    ELSE LET dx == DIRS[i][1]
             dy == DIRS[i][2]
             rest == endpoints_unsandwiched(board, player, row, col, i + 1)
         IN  Only({
             IF valid_coordinate(w.x, w.y) /\ board[w.x][w.y] = player
             THEN << <<dx, dy, w.x, w.y>> >> \o rest
             ELSE rest
             : w \in { walk(board, player, row + dx, col + dy,
                            dx, dy, FALSE) } })

\* Game._get_endpoints, the for loop from direction i on
RECURSIVE endpoints_from(_, _, _, _, _)
endpoints_from(board, player, row, col, i) ==
    LET from[k \in 1 .. Len(DIRS) + 1] ==
            IF k > Len(DIRS) THEN << >>
            ELSE Only({
                 IF w.sandwiched /\ valid_coordinate(w.x, w.y)
                    /\ board[w.x][w.y] = player
                 THEN << <<DIRS[k][1], DIRS[k][2], w.x, w.y>> >> \o from[k + 1]
                 ELSE from[k + 1]
                 : w \in { walk(board, player, row + DIRS[k][1],
                                col + DIRS[k][2], DIRS[k][1], DIRS[k][2],
                                FALSE) } })
    IN  from[i]

\* Game._get_endpoints: the list of (dx, dy, end_x, end_y)
_get_endpoints(board, player, row, col) ==
    endpoints_from(board, player, row, col, 1)

\* is_legal_move without the test that the cell is empty
is_legal_move_occupied(board, player, row, col) ==
    /\ valid_coordinate(row, col)
    /\ endpoints_from(board, player, row, col, 1) # << >>

\* Game.is_legal_move (its truth value: the code returns False or the list)
is_legal_move(board, player, row, col) ==
    /\ valid_coordinate(row, col)
    /\ board[row][col] = NO_PIECE
    /\ _get_endpoints(board, player, row, col) # << >>

\* the (row, col) pairs in the order of the two nested range() loops
scan == [i \in 1 .. (BOARD_SIZE * BOARD_SIZE) |->
            <<(i - 1) \div BOARD_SIZE, (i - 1) % BOARD_SIZE>>]

\* the value of self.board: BOARD_SIZE rows of BOARD_SIZE cells
Board == [Index -> [Index -> Piece]]

\* the two nested loops of get_legal_moves_for_player, as a function of the
\* board and the player: the legal moves, row-major
legal_moves_on[board \in Board, player \in Player] ==
    SelectSeq(scan, LAMBDA m : is_legal_move(board, player, m[1], m[2]))

\* get_legal_moves_for_player that lists every empty cell
empty_cells(board, player) ==
    SelectSeq(scan, LAMBDA m : board[m[1]][m[2]] = NO_PIECE)

\* Game.get_legal_moves_for_player
get_legal_moves_for_player(board, player) == legal_moves_on[board, player]

\* get_num_pieces returning (white_pieces, black_pieces)
get_num_pieces_swapped(board) ==
    << Cardinality({m \in Index \X Index : board[m[1]][m[2]] = WHITE}),
       Cardinality({m \in Index \X Index : board[m[1]][m[2]] = BLACK}) >>

\* Game.get_num_pieces: (black_pieces, white_pieces)
get_num_pieces(board) ==
    << Cardinality({m \in Index \X Index : board[m[1]][m[2]] = BLACK}),
       Cardinality({m \in Index \X Index : board[m[1]][m[2]] = WHITE}) >>

\* the inner while loop taking the captured pieces off the board
RECURSIVE flip_run_removed(_, _, _, _, _, _, _, _)
flip_run_removed(board, piece, x, y, dx, dy, end_x, end_y) ==
    IF <<x, y>> # <<end_x, end_y>>
    THEN flip_run_removed([board EXCEPT ![x][y] = NO_PIECE], piece,
                          x + dx, y + dy, dx, dy, end_x, end_y)
    ELSE board

\* Game.place_piece, the inner while loop: overwrite up to the endpoint
RECURSIVE flip_run(_, _, _, _, _, _, _, _)
flip_run(board, piece, x, y, dx, dy, end_x, end_y) ==
    IF <<x, y>> # <<end_x, end_y>>
    THEN flip_run([board EXCEPT ![x][y] = piece], piece,
                  x + dx, y + dy, dx, dy, end_x, end_y)
    ELSE board

\* the for loop left after its first endpoint
flip_from_first(board, piece, row, col, endpoints, i) ==
    IF i > Len(endpoints) THEN board
    ELSE LET e == endpoints[i]
         IN  flip_run(board, piece, row + e[1], col + e[2],
                      e[1], e[2], e[3], e[4])

\* Game.place_piece, the for loop over the endpoints from the i-th on
RECURSIVE flip_from(_, _, _, _, _, _)
flip_from(board, piece, row, col, endpoints, i) ==
    IF i > Len(endpoints) THEN board
    ELSE LET e == endpoints[i]
         IN  flip_from(flip_run(board, piece, row + e[1], col + e[2],
                                e[1], e[2], e[3], e[4]),
                       piece, row, col, endpoints, i + 1)

\* place_piece that writes the target cell before it checks the move
place_piece_written_first(heap, game, player, row, col) ==
    LET piece  == from_player(player)
        placed == IF valid_coordinate(row, col)
                  THEN [heap[game.board] EXCEPT ![row][col] = piece]
                  ELSE heap[game.board]
    IN  IF ~ is_legal_move(heap[game.board], player, row, col)
        THEN [heap |-> [heap EXCEPT ![game.board] = placed], raised |-> TRUE]
        ELSE Only({
             [heap |-> [heap EXCEPT ![game.board] =
                           flip_from(placed, piece, row, col, ends, 1)],
              raised |-> FALSE]
             : ends \in { _get_endpoints(placed, player, row, col) } })

\* place_piece that only checks the coordinate and the cell, not the capture
place_piece_unchecked(heap, game, player, row, col) ==
    IF ~ (valid_coordinate(row, col)
          /\ heap[game.board][row][col] = NO_PIECE)
    THEN [heap |-> heap, raised |-> TRUE]
    ELSE LET piece  == from_player(player)
             placed == [heap[game.board] EXCEPT ![row][col] = piece]
         IN  Only({
             [heap |-> [heap EXCEPT ![game.board] =
                           flip_from(placed, piece, row, col, ends, 1)],
              raised |-> FALSE]
             : ends \in { endpoints_from(placed, player, row, col, 1) } })

\* Game.place_piece: raises ValueError, or writes the board object in place
place_piece(heap, game, player, row, col) ==
    IF ~ is_legal_move(heap[game.board], player, row, col)
    THEN [heap |-> heap, raised |-> TRUE]
    ELSE LET piece  == from_player(player)
             placed == [heap[game.board] EXCEPT ![row][col] = piece]
         IN  Only({
             [heap |-> [heap EXCEPT ![game.board] =
                           flip_from(placed, piece, row, col, ends, 1)],
              raised |-> FALSE]
             : ends \in { _get_endpoints(placed, player, row, col) } })

\* clone that hands back the Game itself
clone_self(heap, game) == [heap |-> heap, game |-> game]

\* Game.clone: Game(self.board)
clone(heap, game) == __init__(heap, game.board)

(***************************************************************************)
(* bot.py: MinimaxBot, GreedyBot, CornersBot.  A bot is a record of its    *)
(* class and its depth.                                                    *)
(***************************************************************************)
\* a sentinel inside the range of the scores
sentinel_zero == 0 * BOARD_SIZE

\* float('inf'): above every score an evaluator returns (at most 64 + 4 * 25)
inf == 1000

\* GreedyBot.coin_score
coin_score(board) ==
    LET n == get_num_pieces(board) IN n[1] - n[2]

\* CornersBot.corners_score: the sum of the four corner cells' values
corners_score(board) ==
    LET corners_indices == << <<0, 0>>, <<0, BOARD_SIZE - 1>>,
                              <<BOARD_SIZE - 1, 0>>,
                              <<BOARD_SIZE - 1, BOARD_SIZE - 1>> >>
        cell(i) == board[corners_indices[i][1]][corners_indices[i][2]]
    IN  cell(1) + cell(2) + cell(3) + cell(4)

\* evaluate of CornersBot without the corner term
evaluate_material(bot, board) == coin_score(board)

\* GreedyBot.evaluate, CornersBot.evaluate (dispatch on the bot's class)
evaluate(bot, board) ==
    IF bot.class = "CornersBot"
    THEN coin_score(board) + 25 * corners_score(board)
    ELSE coin_score(board)

\* operator.ge for BLACK, operator.le for WHITE: an equal score replaces
comparator_or_equal(player, a, b) == IF player = BLACK THEN a >= b ELSE a <= b

\* operator.lt for BLACK, operator.gt for WHITE: the two exchanged
comparator_exchanged(player, a, b) == IF player = BLACK THEN a < b ELSE a > b

\* operator.gt for BLACK, operator.lt for WHITE
comparator(player, a, b) == IF player = BLACK THEN a > b ELSE a < b

max(a, b) == IF b > a THEN b ELSE a
min(a, b) == IF b < a THEN b ELSE a

\* alpha = max(alpha, cur_eval) for either player, the else lost
next_alpha_always(player, alpha, cur_eval) == max(alpha, cur_eval)

\* the window after a child: alpha = max(alpha, cur_eval) for BLACK
next_alpha(player, alpha, cur_eval) ==
    IF player = BLACK THEN max(alpha, cur_eval) ELSE alpha

\* beta = min(beta, cur_eval) for either player, the else lost
next_beta_always(player, beta, cur_eval) == min(beta, cur_eval)

\* the window after a child: beta = min(beta, cur_eval) for WHITE
next_beta(player, beta, cur_eval) ==
    IF player = BLACK THEN beta ELSE min(beta, cur_eval)

\* the clone of one loop iteration is garbage once new_game is rebound
release(heap, n) == SubSeq(heap, 1, n)

\* MinimaxBot._minimax.  Its result carries the heap as the search leaves
\* it and whether a place_piece inside the search raised.
RECURSIVE _minimax(_, _, _, _, _, _, _)

\* one iteration of the for loop, for legal_move, on the loop's variables
\* (at): clone, place_piece, the recursive call, the updates, the cutoff test
minimax_iteration(at, bot, game, player, depth, legal_move) ==
    Only({
    Only({
        IF placed.raised
        THEN [at EXCEPT !.heap = release(placed.heap, Len(at.heap)),
                        !.raised = TRUE]
        ELSE
        Only({
            IF child.raised
            THEN [at EXCEPT !.heap = release(child.heap, Len(at.heap)),
                            !.raised = TRUE]
            ELSE
            LET cur_eval == child.eval
                better == comparator(player, cur_eval, at.best_eval)
                alpha == next_alpha(player, at.alpha, cur_eval)
                beta == next_beta(player, at.beta, cur_eval)
            IN  [best_eval |-> IF better THEN cur_eval ELSE at.best_eval,
                 best_move |-> IF better THEN legal_move ELSE at.best_move,
                 alpha |-> alpha,
                 beta |-> beta,
                 heap |-> release(child.heap, Len(at.heap)),
                 raised |-> FALSE,
                 break |-> beta <= alpha]
        : child \in {
            _minimax(placed.heap, bot, new_game.game, opponent(player),
                     depth - 1, at.alpha, at.beta) } })
    : placed \in {
        place_piece(new_game.heap, new_game.game, player,
                    legal_move[1], legal_move[2]) } })
    : new_game \in { clone(at.heap, game) } })

\* the for loop of _minimax: its variables after the loop, where after[n]
\* are the variables after the first n legal moves, none of them visited
\* once the loop is left by break or by an exception
minimax_loop(heap, bot, game, player, depth, alpha, beta, legal_moves) ==
    LET after[n \in 0 .. Len(legal_moves)] ==
            IF n = 0
            THEN [best_eval |-> IF player = BLACK THEN 0 - inf ELSE inf,
                  best_move |-> None, alpha |-> alpha, beta |-> beta,
                  heap |-> heap, raised |-> FALSE, break |-> FALSE]
            ELSE Only({
                 IF at.raised \/ at.break
                 THEN at
                 ELSE minimax_iteration(at, bot, game, player, depth,
                                        legal_moves[n])
                 : at \in { after[n - 1] } })
    IN  after[Len(legal_moves)]

\* _minimax whose base case tests depth < 0
minimax_below_zero(heap, bot, game, player, depth, alpha, beta) ==
    Only({
        IF depth < 0 \/ legal_moves = << >>
        THEN [eval |-> evaluate(bot, heap[game.board]), move |-> None,
              heap |-> heap, raised |-> FALSE]
        ELSE Only({
             [eval |-> end.best_eval, move |-> end.best_move,
              heap |-> end.heap, raised |-> end.raised]
             : end \in { minimax_loop(heap, bot, game, player, depth,
                                      alpha, beta, legal_moves) } })
    : legal_moves \in {
        get_legal_moves_for_player(heap[game.board], player) } })

_minimax(heap, bot, game, player, depth, alpha, beta) ==
    Only({
        IF depth = 0 \/ legal_moves = << >>
        THEN [eval |-> evaluate(bot, heap[game.board]), move |-> None,
              heap |-> heap, raised |-> FALSE]
        ELSE Only({
             [eval |-> end.best_eval, move |-> end.best_move,
              heap |-> end.heap, raised |-> end.raised]
             : end \in { minimax_loop(heap, bot, game, player, depth,
                                      alpha, beta, legal_moves) } })
    : legal_moves \in {
        get_legal_moves_for_player(heap[game.board], player) } })

\* MinimaxBot.get_best_move: the move of the full-window search
get_best_move(heap, bot, game, player) ==
    _minimax(heap, bot, game, player, bot.depth, 0 - inf, inf)

(***************************************************************************)
(* game_test.py: the boards the tests set up before placing a piece        *)
(***************************************************************************)
\* test_flip_multiple_pieces
test_flip_multiple_pieces ==
    [new_board EXCEPT ![3][5] = WHITE, ![3][6] = WHITE]

\* test_flip_two_directions
test_flip_two_directions ==
    [new_board EXCEPT ![3][5] = WHITE, ![4][4] = WHITE, ![4][5] = WHITE,
                      ![5][4] = BLACK]

(***************************************************************************)
(* bot.py: play_game.  bots is the two-element list; Python indexes it     *)
(* with 0 and, after cur_bot = ~cur_bot, with -1.                          *)
(***************************************************************************)
\* bots[cur_bot], a negative index counting from the end of the list
bots_at(bots, cur_bot) ==
    IF cur_bot >= 0 THEN bots[cur_bot + 1] ELSE bots[Len(bots) + cur_bot + 1]

\* -cur_bot in place of ~cur_bot
negate(cur_bot) == 0 - cur_bot

\* ~cur_bot on Python's integers
invert(cur_bot) == 0 - cur_bot - 1

\* every move taken for false, a pair as None is
truthy_never(move) == FALSE

\* the truth value of the walrus-assigned move: None is false, a pair true
truthy(move) == move # None

(***************************************************************************)
(* The state: the heap, the caller's Game, the number of pieces it placed, *)
(* a record of the last operation with the board it was applied to, and    *)
(* the locals of play_game.                                                *)
(***************************************************************************)
VARIABLES heap, game, nplaced, last, bots, cur_bot, cur_player, pc, returned

vars == <<heap, game, nplaced, last, bots, cur_bot, cur_player, pc, returned>>

driver == <<bots, cur_bot, cur_player, pc, returned>>

Coord == (0 - CoordSlack) .. (BOARD_SIZE - 1 + CoordSlack)

Classes == {"GreedyBot", "CornersBot"}
Bots == [class : Classes, depth : 0 .. MaxPly]
PlayBots == [class : Classes, depth : 0 .. MaxPlayDepth]

\* bot_test.py, test_depth: the two bots and the two games it plays
shallow_bot == [class |-> "CornersBot", depth |-> 1]
deep_bot == [class |-> "CornersBot", depth |-> 2]
test_depth == {<<deep_bot, shallow_bot>>, <<shallow_bot, deep_bot>>}
NoBot == [class |-> "none", depth |-> 0]

NoOp == [op |-> "Game()", player |-> NO_PIECE, row |-> 0, col |-> 0,
         alpha |-> 0, beta |-> 0,
         raised |-> FALSE, legal |-> FALSE, moves |-> << >>,
         old |-> new_board,
         bot |-> NoBot, eval |-> 0, move |-> None]

\* the boards a Game is constructed on
StartBoards == {test_flip_multiple_pieces, test_flip_two_directions}

\* game = Game(), or game = Game(board) on a board of the tests
Init ==
    /\ \/ \E g \in {__init__(<< >>, NoBoard)} :
             /\ heap = g.heap
             /\ game = g.game
             /\ last = NoOp
       \/ \E b \in StartBoards :
          \E g \in {__init__(<<b>>, 1)} :
             /\ heap = g.heap
             /\ game = g.game
             /\ last = [NoOp EXCEPT !.op = "Game(board)", !.old = b]
    /\ nplaced = 0
    /\ bots = <<NoBot, NoBot>>
    /\ cur_bot = 0
    /\ cur_player = BLACK
    /\ pc = "caller"
    /\ returned = None

\* the caller goes on from a constructed Game or a placed piece: a query
\* leaves nothing to go on from that its position did not, and an uncaught
\* ValueError ends the caller
Ready == last.op \in {"Game()", "Game(board)", "place_piece"} /\ ~ last.raised

\* game.is_legal_move(player, row, col)
IsLegalMove(player, row, col) ==
    /\ Ready
    /\ nplaced < MaxMoves
    /\ last' = [NoOp EXCEPT !.op = "is_legal_move", !.player = player,
                            !.row = row, !.col = col,
                            !.legal = is_legal_move(heap[game.board],
                                                    player, row, col),
                            !.old = heap[game.board]]
    /\ UNCHANGED <<heap, game, nplaced, driver>>

\* game.get_legal_moves_for_player(player)
GetLegalMoves(player) ==
    /\ Ready
    /\ nplaced < MaxMoves
    /\ last' = [NoOp EXCEPT !.op = "get_legal_moves_for_player",
                            !.player = player,
                            !.moves = get_legal_moves_for_player(
                                          heap[game.board], player),
                            !.old = heap[game.board]]
    /\ UNCHANGED <<heap, game, nplaced, driver>>

\* game.place_piece(player, row, col), moves being the list that
\* get_legal_moves_for_player(player) returned on this board just before
PlacePiece(player, row, col, moves) ==
    /\ \E r \in {place_piece(heap, game, player, row, col)} :
           /\ heap' = r.heap
           /\ nplaced' = IF r.raised THEN nplaced ELSE nplaced + 1
           /\ last' = [NoOp EXCEPT !.op = "place_piece", !.player = player,
                                   !.row = row, !.col = col,
                                   !.raised = r.raised, !.moves = moves,
                                   !.old = heap[game.board]]
    /\ UNCHANGED <<game, driver>>

\* bot.get_best_move(game, player)
GetBestMove(bot, player) ==
    /\ Ready
    /\ nplaced + bot.depth <= MaxPly
    /\ \E r \in {get_best_move(heap, bot, game, player)} :
           /\ heap' = r.heap
           /\ last' = [NoOp EXCEPT !.op = "get_best_move", !.player = player,
                                   !.raised = r.raised,
                                   !.old = heap[game.board], !.bot = bot,
                                   !.eval = r.eval, !.move = r.move]
    /\ UNCHANGED <<game, nplaced, driver>>

\* a caller that lists a player's legal moves and then calls place_piece
\* for that player on any coordinate
TryPlace(row, col) ==
    /\ last.op = "get_legal_moves_for_player"
    /\ PlacePiece(last.player, row, col, last.moves)

\* the board engine under arbitrary place_piece calls
Next ==
    \/ \E player \in Player : GetLegalMoves(player)
    \/ \E row \in Coord, col \in Coord : TryPlace(row, col)

Spec == Init /\ [][Next]_vars

\* game = Game(): the start layout only
InitGame == Init /\ last.op = "Game()"

\* the board engine under arbitrary place_piece calls from the start layout
SpecGame == InitGame /\ [][Next]_vars

\* a driver that places a legal move of either player
PlayMove(player) ==
    /\ Ready
    /\ nplaced < MaxSearchMoves
    /\ \E legal_moves \in {get_legal_moves_for_player(heap[game.board],
                                                      player)} :
       \E i \in 1 .. Len(legal_moves) :
          PlacePiece(player, legal_moves[i][1], legal_moves[i][2],
                     legal_moves)

\* the legality query under a driver that places legal moves
NextQuery ==
    \/ \E player \in Player : PlayMove(player)
    \/ \E player \in Player, row \in Coord, col \in Coord :
          IsLegalMove(player, row, col)

SpecQuery == Init /\ [][NextQuery]_vars

\* the search under a driver that places BLACK's legal moves, as the tests
\* of the board engine do, and asks the bots for either player
NextSearch ==
    \/ PlayMove(BLACK)
    \/ \E bot \in Bots, player \in Player : GetBestMove(bot, player)

SpecSearch == Init /\ [][NextSearch]_vars

\* the ends a window can have: -inf, inf and the scores near an even game
WindowEnds == {0 - inf, inf} \cup ((0 - MaxWindow) .. MaxWindow)

\* the bots the windowed search is asked of: the window is handled the same
\* way whatever the evaluator, and no corner is in reach of these depths
WindowBots == [class : {"GreedyBot"}, depth : 0 .. MaxWindowPly]

\* bot._minimax(game, player, bot.depth, alpha, beta), as _minimax calls
\* itself on a child with the window of the moment
Minimax(bot, player, alpha, beta) ==
    /\ Ready
    /\ nplaced + bot.depth <= MaxWindowPly
    /\ alpha < beta
    /\ \E r \in {_minimax(heap, bot, game, player, bot.depth, alpha, beta)} :
           /\ heap' = r.heap
           /\ last' = [NoOp EXCEPT !.op = "_minimax", !.player = player,
                                   !.raised = r.raised,
                                   !.old = heap[game.board], !.bot = bot,
                                   !.eval = r.eval, !.move = r.move,
                                   !.alpha = alpha, !.beta = beta]
    /\ UNCHANGED <<game, nplaced, driver>>

\* the driver of the windowed search: a legal move of BLACK while a search
\* of depth 1 still fits after it
WindowMove ==
    /\ nplaced + 1 < MaxWindowPly
    /\ PlayMove(BLACK)

\* _minimax on any window, under a driver that places BLACK's legal moves
NextWindow ==
    \/ WindowMove
    \/ \E bot \in WindowBots, player \in Player :
       \E alpha \in WindowEnds, beta \in WindowEnds :
          Minimax(bot, player, alpha, beta)

SpecWindow == Init /\ [][NextWindow]_vars

\* play_game(black_bot, white_bot) up to its while loop
InitPlay ==
    /\ LET g == __init__(<< >>, NoBoard)
       IN  /\ heap = g.heap
           /\ game = g.game
    /\ nplaced = 0
    /\ last = NoOp
    /\ bots \in (PlayBots \X PlayBots) \cup test_depth
    /\ cur_bot = 0
    /\ cur_player = BLACK
    /\ pc = "while"
    /\ returned = None

\* play_game: one evaluation of the while condition and, when the move is
\* true, one run of the loop body; otherwise the return
PlayTurn ==
    /\ pc = "while"
    /\ \E bot \in {bots_at(bots, cur_bot)} :
       \E r \in {get_best_move(heap, bot, game, cur_player)} :
       LET turn == [NoOp EXCEPT !.op = "play_game", !.player = cur_player,
                                !.old = heap[game.board], !.bot = bot,
                                !.eval = r.eval, !.move = r.move]
       IN  IF r.raised
           THEN /\ heap' = r.heap
                /\ pc' = "raised"
                /\ last' = [turn EXCEPT !.raised = TRUE]
                /\ UNCHANGED <<nplaced, cur_bot, cur_player, returned>>
           ELSE IF ~ truthy(r.move)
           THEN /\ heap' = r.heap
                /\ pc' = "return"
                /\ returned' = get_num_pieces(r.heap[game.board])
                /\ last' = turn
                /\ UNCHANGED <<nplaced, cur_bot, cur_player>>
           ELSE
           \E p \in {place_piece(r.heap, game, cur_player,
                                 r.move[1], r.move[2])} :
           IF p.raised
           THEN /\ heap' = p.heap
                /\ pc' = "raised"
                /\ last' = [turn EXCEPT !.raised = TRUE, !.row = r.move[1],
                                        !.col = r.move[2]]
                /\ UNCHANGED <<nplaced, cur_bot, cur_player, returned>>
           ELSE /\ heap' = p.heap
                /\ nplaced' = nplaced + 1
                /\ cur_bot' = invert(cur_bot)
                /\ cur_player' = opponent(cur_player)
                /\ last' = [turn EXCEPT !.row = r.move[1], !.col = r.move[2]]
                /\ UNCHANGED <<pc, returned>>
    /\ UNCHANGED <<game, bots>>

NextPlay == PlayTurn

SpecPlay == InitPlay /\ [][NextPlay]_vars

\* play_game runs on: a pending loop iteration is eventually executed
SpecPlayFair == SpecPlay /\ WF_vars(NextPlay)

\* bot.evaluate(game), on the Game that play_game is playing on
Evaluate(bot) ==
    /\ last.op # "evaluate"
    /\ last' = [NoOp EXCEPT !.op = "evaluate", !.bot = bot,
                            !.old = heap[game.board],
                            !.eval = evaluate(bot, heap[game.board])]
    /\ UNCHANGED <<heap, game, nplaced, driver>>

\* play_game goes on from its own turns, not from an evaluation asked aside
PlayOn == last.op # "evaluate" /\ PlayTurn

\* the evaluators on the boards of the games that play_game plays
NextEvaluate ==
    \/ PlayOn
    \/ \E bot \in PlayBots : Evaluate(bot)

SpecEvaluate == InitPlay /\ [][NextEvaluate]_vars

(***************************************************************************)
(* The rules of Othello stated on a board, independently of the code's     *)
(* walk: what the properties below compare the operations with.            *)
(***************************************************************************)
Directions8 == {d \in {-1, 0, 1} \X {-1, 0, 1} : d # <<0, 0>>}

OnBoard(row, col) == row \in Index /\ col \in Index

Other(player) == IF player = BLACK THEN WHITE ELSE BLACK

SeqRange(seq) == {seq[i] : i \in 1 .. Len(seq)}

\* the k cells after (row, col) in direction d hold the opponent's pieces
OpponentRun(board, player, row, col, d, k) ==
    \A j \in 1 .. k :
        /\ OnBoard(row + j * d[1], col + j * d[2])
        /\ board[row + j * d[1]][col + j * d[2]] = Other(player)

\* ... and the cell after them is on the board and holds the player's piece
Captures(board, player, row, col, d, k) ==
    /\ OpponentRun(board, player, row, col, d, k)
    /\ OnBoard(row + (k + 1) * d[1], col + (k + 1) * d[2])
    /\ board[row + (k + 1) * d[1]][col + (k + 1) * d[2]] = player

CapturesSome(board, player, row, col) ==
    \E d \in Directions8, k \in 1 .. BOARD_SIZE :
        Captures(board, player, row, col, d, k)

LegalByRule(board, player, row, col) ==
    /\ OnBoard(row, col)
    /\ board[row][col] = NO_PIECE
    /\ CapturesSome(board, player, row, col)

\* the cells strictly between (row, col) and a capture endpoint
Between(board, player, row, col) ==
    UNION {{<<row + j * x[1][1], col + j * x[1][2]>> : j \in 1 .. x[2]} :
           x \in {y \in Directions8 \X (1 .. BOARD_SIZE) :
                     Captures(board, player, row, col, y[1], y[2])}}

\* the opponent's run next to (row, col) in direction d reaches the edge
RunToEdge(board, player, row, col, d) ==
    \E k \in 1 .. BOARD_SIZE :
        /\ OpponentRun(board, player, row, col, d, k)
        /\ ~ OnBoard(row + (k + 1) * d[1], col + (k + 1) * d[2])

\* ... or ends at an empty cell
RunToEmpty(board, player, row, col, d) ==
    \E k \in 1 .. BOARD_SIZE :
        /\ OpponentRun(board, player, row, col, d, k)
        /\ OnBoard(row + (k + 1) * d[1], col + (k + 1) * d[2])
        /\ board[row + (k + 1) * d[1]][col + (k + 1) * d[2]] = NO_PIECE

board_now == heap[game.board]

(***************************************************************************)
(* Properties of the board engine (specifications Spec and SpecQuery)      *)
(***************************************************************************)
\* C1: is_legal_move(player, row, col) is true exactly when (row, col) is on
\* the board, empty, and in some of the 8 directions a non-empty run of the
\* opponent's pieces next to it is followed by a piece of the player on the
\* board; out-of-range coordinates and occupied cells are never legal.
C1_LegalIffCapture ==
    last.op = "is_legal_move" =>
        (last.legal <=> LegalByRule(last.old, last.player, last.row, last.col))

\* C1 witness: a query on an empty cell whose only runs end at the board
\* edge or at an empty cell, answered false
C1_Witness ==
    /\ last.op = "is_legal_move"
    /\ ~ last.legal
    /\ OnBoard(last.row, last.col)
    /\ last.old[last.row][last.col] = NO_PIECE
    /\ \E d \in Directions8 :
          RunToEdge(last.old, last.player, last.row, last.col, d)
    /\ \E d \in Directions8 :
          RunToEmpty(last.old, last.player, last.row, last.col, d)

\* C2: a successful place_piece changes exactly the target cell and the
\* cells strictly between it and a capture endpoint of the board before the
\* move, all to the player's piece; every other cell keeps its content.
C2_PlaceChangesExactlyCaptured ==
    (last.op = "place_piece" /\ ~ last.raised) =>
        LET changed == {<<last.row, last.col>>} \cup
                       Between(last.old, last.player, last.row, last.col)
        IN  \A c \in Index \X Index :
                IF c \in changed
                THEN /\ board_now[c[1]][c[2]] = last.player
                     /\ last.old[c[1]][c[2]] # last.player
                ELSE board_now[c[1]][c[2]] = last.old[c[1]][c[2]]

\* C2 witness: a placement that captured in two directions, one run of
\* them longer than one piece
C2_Witness ==
    /\ last.op = "place_piece"
    /\ ~ last.raised
    /\ \E d1 \in Directions8, d2 \in Directions8 :
          /\ d1 # d2
          /\ \E k \in 2 .. BOARD_SIZE :
                Captures(last.old, last.player, last.row, last.col, d1, k)
          /\ \E k \in 1 .. BOARD_SIZE :
                Captures(last.old, last.player, last.row, last.col, d2, k)

\* C3: place_piece raises exactly when (row, col) is not among
\* get_legal_moves_for_player(player); it raises for every coordinate off
\* the board, every occupied cell and every cell that captures nothing.
C3_RaisesIffNotLegalMove ==
    last.op = "place_piece" =>
        /\ last.raised <=> <<last.row, last.col>> \notin SeqRange(last.moves)
        /\ ~ OnBoard(last.row, last.col) => last.raised
        /\ (OnBoard(last.row, last.col)
            /\ last.old[last.row][last.col] # NO_PIECE) => last.raised
        /\ ~ CapturesSome(last.old, last.player, last.row, last.col)
              => last.raised

\* C3 witness: place_piece raised on an empty cell of the board next to an
\* opponent's piece, because nothing is captured
C3_Witness ==
    /\ last.op = "place_piece"
    /\ last.raised
    /\ OnBoard(last.row, last.col)
    /\ last.old[last.row][last.col] = NO_PIECE
    /\ \E d \in Directions8 :
          OpponentRun(last.old, last.player, last.row, last.col, d, 1)
    /\ board_now = last.old

\* C9 as stated: from the start layout place_piece(BLACK, 2, 3) succeeds
\* and leaves BLACK on (2,3) and (3,3), nothing else changed
C9_AsStated ==
    (last.op = "place_piece" /\ last.old = new_board
     /\ last.player = BLACK /\ last.row = 2 /\ last.col = 3) =>
        /\ ~ last.raised
        /\ board_now[2][3] = BLACK
        /\ board_now[3][3] = BLACK
        /\ \A c \in (Index \X Index) \ {<<2, 3>>} :
              board_now[c[1]][c[2]] = new_board[c[1]][c[2]]

\* C9 amended: from the start layout place_piece(BLACK, 2, 3) raises the
\* illegal-move error, (3,3) below it being BLACK already so that no WHITE
\* piece is captured, and the board stays the start layout: (2,3) empty,
\* (3,3) BLACK, no cell flipped.
C9_Black23Raises ==
    (last.op = "place_piece" /\ last.old = new_board
     /\ last.player = BLACK /\ last.row = 2 /\ last.col = 3) =>
        /\ last.raised
        /\ board_now[2][3] = NO_PIECE
        /\ board_now[3][3] = BLACK
        /\ board_now = new_board

\* C9 witness: place_piece(BLACK, 2, 3) was called on the start layout
C9_Witness ==
    /\ last.op = "place_piece"
    /\ last.old = new_board
    /\ last.player = BLACK /\ last.row = 2 /\ last.col = 3
    /\ nplaced = 0

\* C10: Game() has BLACK on (3,3) and (4,4), WHITE on (3,4) and (4,3), the
\* other 60 cells empty, and get_num_pieces() = (2, 2).
C10_InitialBoard ==
    last.op = "Game()" =>
        /\ board_now[3][3] = BLACK /\ board_now[4][4] = BLACK
        /\ board_now[3][4] = WHITE /\ board_now[4][3] = WHITE
        /\ \A c \in (Index \X Index) \ {<<3, 3>>, <<4, 4>>, <<3, 4>>, <<4, 3>>} :
              board_now[c[1]][c[2]] = NO_PIECE
        /\ Cardinality(Index \X Index) = 64
        /\ get_num_pieces(board_now) = <<2, 2>>

\* C10 witness: the state right after game = Game()
C10_Witness ==
    /\ last.op = "Game()"
    /\ nplaced = 0
    /\ Len(heap) = 1
    /\ game.board = 1

\* C17: a place_piece that raises, for a coordinate off the board, an
\* occupied cell or a cell that captures nothing, leaves every cell of the
\* board as it was before the call.
C17_RaiseLeavesBoard ==
    (last.op = "place_piece" /\ last.raised) =>
        /\ board_now = last.old
        /\ \A c \in Index \X Index :
              board_now[c[1]][c[2]] = last.old[c[1]][c[2]]
        /\ get_num_pieces(board_now) = get_num_pieces(last.old)

\* C17 witness: place_piece raised on a cell of the board that holds a
\* piece of the opponent, after a piece was placed, and the cell still
\* holds that piece
C17_Witness ==
    /\ last.op = "place_piece"
    /\ last.raised
    /\ nplaced >= 1
    /\ OnBoard(last.row, last.col)
    /\ last.old[last.row][last.col] = Other(last.player)
    /\ board_now[last.row][last.col] = Other(last.player)

\* the cells of a board that hold the given piece
CellsOf(board, piece) ==
    {c \in Index \X Index : board[c[1]][c[2]] = piece}

\* C18: from the start layout, a successful place_piece empties no occupied
\* cell, fills exactly one empty cell, flips at least one piece of the
\* opponent and none of the mover, so that the mover gains at least 2 and
\* the opponent loses at least 1; after n successful calls black + white is
\* 4 + n, at most 64.
C18_PlacementCounts ==
    /\ Cardinality(CellsOf(board_now, BLACK))
         + Cardinality(CellsOf(board_now, WHITE)) = 4 + nplaced
    /\ 4 + nplaced <= BOARD_SIZE * BOARD_SIZE
    /\ (last.op = "place_piece" /\ ~ last.raised) =>
          LET mover == last.player
              other == Other(last.player)
          IN  /\ CellsOf(board_now, NO_PIECE) \subseteq
                    CellsOf(last.old, NO_PIECE)
              /\ CellsOf(last.old, NO_PIECE) \ CellsOf(board_now, NO_PIECE)
                    = {<<last.row, last.col>>}
              /\ CellsOf(last.old, other) \ CellsOf(board_now, other) # {}
              /\ CellsOf(last.old, other) \ CellsOf(board_now, other)
                    \subseteq CellsOf(board_now, mover)
              /\ CellsOf(board_now, other) \subseteq CellsOf(last.old, other)
              /\ CellsOf(last.old, mover) \subseteq CellsOf(board_now, mover)
              /\ Cardinality(CellsOf(board_now, mover))
                    >= Cardinality(CellsOf(last.old, mover)) + 2
              /\ Cardinality(CellsOf(board_now, other))
                    <= Cardinality(CellsOf(last.old, other)) - 1

\* C18 witness: the second successful place_piece in a row of the same
\* player, from the start layout
C18_Witness ==
    /\ last.op = "place_piece"
    /\ ~ last.raised
    /\ nplaced = 2
    /\ Cardinality(CellsOf(board_now, Other(last.player))) = 0

(***************************************************************************)
(* The full-width minimax the pruned search is compared with: the same     *)
(* base case, the same order of the moves and the same strict update, with *)
(* no window.                                                              *)
(***************************************************************************)
\* the board after place_piece(player, m) on a board by itself
Apply(board, player, m) ==
    place_piece(<<board>>, [board |-> 1], player, m[1], m[2]).heap[1]

RECURSIVE FullMinimax(_, _, _, _)
RECURSIVE FullLoop(_, _, _, _, _, _, _, _)
FullLoop(board, bot, player, depth, moves, i, best_eval, best_move) ==
    IF i > Len(moves) THEN <<best_eval, best_move>>
    ELSE LET v == FullMinimax(Apply(board, player, moves[i]), bot,
                              Other(player), depth - 1)[1]
             better == IF player = BLACK THEN v > best_eval ELSE v < best_eval
         IN  FullLoop(board, bot, player, depth, moves, i + 1,
                      IF better THEN v ELSE best_eval,
                      IF better THEN moves[i] ELSE best_move)

FullMinimax(board, bot, player, depth) ==
    LET moves == get_legal_moves_for_player(board, player)
    IN  IF depth = 0 \/ moves = << >>
        THEN <<evaluate(bot, board), None>>
        ELSE FullLoop(board, bot, player, depth, moves, 1,
                      IF player = BLACK THEN 0 - inf ELSE inf, None)

\* a depth-2 search of this node meets the cut-off test beta <= alpha with
\* siblings left: after the first i - 1 moves, the i-th move's replies reach
\* the bound before the last of them
CutsOffAtDepth2(board, bot, player) ==
    LET moves == get_legal_moves_for_player(board, player)
        value(i) == FullMinimax(Apply(board, player, moves[i]), bot,
                                Other(player), 1)[1]
    IN  \E i \in 2 .. Len(moves) :
          LET child == Apply(board, player, moves[i])
              replies == get_legal_moves_for_player(child, Other(player))
              leaf(j) == evaluate(bot, Apply(child, Other(player), replies[j]))
          IN  \E j \in 1 .. (Len(replies) - 1) :
                 \E k \in 1 .. (i - 1) :
                     IF player = BLACK THEN leaf(j) <= value(k)
                                       ELSE leaf(j) >= value(k)

Searched == last.op = "get_best_move"

LegalNow == get_legal_moves_for_player(last.old, last.player)

(***************************************************************************)
(* Properties of the search (specification SpecSearch)                     *)
(***************************************************************************)
\* C4: the (score, move) of _minimax called with the full window equals
\* the (score, move) of the unpruned full-width minimax of the same node.
C4_PruningKeepsResult ==
    Searched =>
        /\ ~ last.raised
        /\ <<last.eval, last.move>> =
              FullMinimax(last.old, last.bot, last.player, last.bot.depth)

\* C4 witness: a search of depth 2 in which the cut-off test is met while
\* replies are left to search
C4_Witness ==
    /\ Searched
    /\ last.bot.depth = 2
    /\ last.move # None
    /\ CutsOffAtDepth2(last.old, last.bot, last.player)

\* C5 as stated: at every depth the move of the search result is None
\* exactly when the player has no legal move
C5_AsStated ==
    Searched => (last.move = None <=> LegalNow = << >>)

\* C5 amended: for every board, player and search depth of at least 1, the
\* move of the search result is None exactly when the player has no legal
\* move on that board.
C5_NoneIffNoMoveAtDepth1 ==
    (Searched /\ last.bot.depth >= 1) =>
        (last.move = None <=> LegalNow = << >>)

\* C5 witness: a search of depth at least 1 for a player without a legal
\* move, which returns None
C5_Witness ==
    /\ Searched
    /\ last.bot.depth >= 1
    /\ LegalNow = << >>
    /\ last.move = None

\* C6: a bot of depth 0 returns None, with the evaluation of the board
\* itself as the score, on every board and for either player, also where
\* the player has legal moves.
C6_DepthZeroReturnsNone ==
    (Searched /\ last.bot.depth = 0) =>
        /\ last.move = None
        /\ ~ last.raised
        /\ last.eval =
              Cardinality({c \in Index \X Index : last.old[c[1]][c[2]] = BLACK})
              - Cardinality({c \in Index \X Index : last.old[c[1]][c[2]] = WHITE})
              + (IF last.bot.class = "CornersBot"
                 THEN 25 * (last.old[0][0] + last.old[0][7]
                            + last.old[7][0] + last.old[7][7])
                 ELSE 0)

\* C6 witness: a bot of depth 0 asked for a player that has legal moves
C6_Witness ==
    /\ Searched
    /\ last.bot.depth = 0
    /\ LegalNow # << >>
    /\ last.move = None

\* C7: get_best_move leaves the caller's board as it was; a clone is
\* another board object, and placing a piece on it leaves the board it was
\* cloned from unchanged.
C7_SearchLeavesBoard ==
    Searched =>
        /\ board_now = last.old
        /\ \A m \in SeqRange(LegalNow) :
              LET c == clone(heap, game)
                  p == place_piece(c.heap, c.game, last.player, m[1], m[2])
              IN  /\ c.game.board # game.board
                  /\ ~ p.raised
                  /\ p.heap[game.board] = last.old
                  /\ p.heap[c.game.board] # last.old

\* C7 witness: a search of depth 2 or more that placed pieces on clones and
\* returned a move
C7_Witness ==
    /\ Searched
    /\ last.bot.depth >= 2
    /\ last.move # None
    /\ board_now = last.old
    /\ Len(heap) = game.board

(***************************************************************************)
(* Properties of play_game (specifications SpecPlay and SpecPlayFair)      *)
(***************************************************************************)
Empties(board) ==
    Cardinality({c \in Index \X Index : board[c[1]][c[2]] = NO_PIECE})

\* what every state of play_game satisfies: at most 60 loop iterations, each
\* placing one piece on an empty cell, and returned counts of at most 64
PlaySafe ==
    /\ nplaced <= 60
    /\ (last.op = "play_game" /\ truthy(last.move)) =>
          /\ ~ last.raised
          /\ last.old[last.row][last.col] = NO_PIECE
          /\ board_now[last.row][last.col] = last.player
          /\ Empties(board_now) = Empties(last.old) - 1
    /\ Empties(board_now) = 60 - nplaced
    /\ pc \in {"while", "return"}
    /\ pc = "return" =>
          /\ returned[1] + returned[2] <= 64
          /\ returned[1] + returned[2] = 4 + nplaced

\* C8: play_game from the initial board terminates for every pair of bots:
\* every loop iteration places exactly one piece on an empty cell, there
\* are at most 60 iterations, and the returned counts sum to at most 64.
C8_PlayGameTerminates == []PlaySafe /\ <>(pc = "return")

\* C8 witness: a returned game in which both bots placed pieces
C8_Witness ==
    /\ pc = "return"
    /\ nplaced >= 2
    /\ returned[1] + returned[2] = 4 + nplaced

\* C12: no place_piece inside the search raises: get_best_move returns
\* without the illegal-move error, and every move the root loop places is
\* legal for the player on the clone it is placed on.
C12_SearchNeverRaises ==
    Searched =>
        /\ ~ last.raised
        /\ \A m \in SeqRange(LegalNow) :
              LET new_game == clone(heap, game)
              IN  is_legal_move(new_game.heap[new_game.game.board],
                                last.player, m[1], m[2])

\* C12 witness: a search of depth 2 or more for WHITE that placed pieces at
\* two levels of clones and returned without raising
C12_Witness ==
    /\ Searched
    /\ last.bot.depth >= 2
    /\ last.player = WHITE
    /\ Len(LegalNow) >= 2
    /\ ~ last.raised

\* C13: in the two games of test_depth the CornersBot of depth 2 ends with
\* strictly more pieces than the CornersBot of depth 1, as BLACK and as
\* WHITE.
C13_DeeperBotWins ==
    pc = "return" =>
        /\ bots = <<deep_bot, shallow_bot>> => returned[1] > returned[2]
        /\ bots = <<shallow_bot, deep_bot>> => returned[1] < returned[2]

\* C13 witness: the returned game in which the deeper bot moved second
C13_Witness ==
    /\ pc = "return"
    /\ bots = <<shallow_bot, deep_bot>>
    /\ nplaced >= 2
    /\ returned[2] > returned[1]

\* C14: a search of depth 1 or more for a player with a legal move returns
\* one of get_legal_moves_for_player(player) of the given board, never
\* None, and place_piece of the returned move does not raise.
C14_ReturnsALegalMove ==
    (Searched /\ last.bot.depth >= 1 /\ LegalNow # << >>) =>
        /\ last.move # None
        /\ last.move \in SeqRange(LegalNow)
        /\ ~ place_piece(heap, game, last.player,
                         last.move[1], last.move[2]).raised

\* C14 witness: a search that returned a legal move other than the first
\* of the list
C14_Witness ==
    /\ Searched
    /\ last.bot.depth >= 1
    /\ Len(LegalNow) >= 2
    /\ last.move \in SeqRange(LegalNow)
    /\ last.move # LegalNow[1]

\* the unpruned minimax score of each root move of the last search
RootValues ==
    [i \in 1 .. Len(LegalNow) |->
        FullMinimax(Apply(last.old, last.player, LegalNow[i]), last.bot,
                    Other(last.player), last.bot.depth - 1)[1]]

\* the i-th root move attains the optimal score: the maximum for BLACK, the
\* minimum for WHITE
Optimal(values, i) ==
    \A j \in DOMAIN values :
        IF last.player = BLACK THEN values[j] <= values[i]
                               ELSE values[j] >= values[i]

\* the move list is in row-major order: rows ascending, columns ascending
\* within a row
RowMajor(moves) ==
    \A i, j \in 1 .. Len(moves) :
        i < j => \/ moves[i][1] < moves[j][1]
                 \/ moves[i][1] = moves[j][1] /\ moves[i][2] < moves[j][2]

\* C15: a search of depth 1 or more returns the first, in row-major order,
\* of the root moves that attain the optimal minimax score; a later move of
\* equal score does not replace it.
C15_FirstOptimalMoveWins ==
    (Searched /\ last.bot.depth >= 1 /\ LegalNow # << >>) =>
        /\ RowMajor(LegalNow)
        /\ \E values \in {RootValues} :
              \E i \in DOMAIN values :
                 /\ Optimal(values, i)
                 /\ \A k \in 1 .. (i - 1) : ~ Optimal(values, k)
                 /\ last.move = LegalNow[i]

\* C15 witness: a search of depth 2 that met the cut-off test and in which
\* two root moves attain the optimal score
C15_Witness ==
    /\ Searched
    /\ last.bot.depth = 2
    /\ CutsOffAtDepth2(last.old, last.bot, last.player)
    /\ \E values \in {RootValues} :
          \E i, j \in DOMAIN values :
             /\ i < j
             /\ Optimal(values, i)
             /\ Optimal(values, j)
             /\ last.move = LegalNow[i]

\* one step of play_game seen from outside: the player to move is asked; on
\* None the game returns at once with the board as it is, otherwise the
\* move is placed for that player and the turn goes to the other player
TurnTaken ==
    /\ pc = "while"
    /\ last'.op = "play_game"
    /\ last'.player = cur_player
    /\ last.op = "Game()" => last'.player = BLACK
    /\ last.op = "play_game" => last'.player = Other(last.player)
    /\ IF last'.move = None
       THEN /\ pc' = "return"
            /\ board_now' = board_now
            /\ cur_player' = cur_player
       ELSE /\ pc' = "while"
            /\ last'.move = <<last'.row, last'.col>>
            /\ board_now[last'.row][last'.col] = NO_PIECE
            /\ board_now'[last'.row][last'.col] = cur_player
            /\ cur_player' = Other(cur_player)

\* C16: play_game alternates BLACK, WHITE, ... from BLACK, no player moves
\* twice in a row, and the game returns at the first turn whose player gets
\* None, whatever the other player could still do.
C16_StopsAtFirstBlockedPlayer == [][TurnTaken]_vars

\* C16 witness: a game that returned after some moves, the player to move
\* having no legal move, while the other player still has one
C16_Witness ==
    /\ pc = "return"
    /\ nplaced >= 2
    /\ last.bot.depth >= 1
    /\ get_legal_moves_for_player(board_now, cur_player) = << >>
    /\ get_legal_moves_for_player(board_now, Other(cur_player)) # << >>

\* black_bot and white_bot of play_game(black_bot, white_bot)
black_bot == bots[1]
white_bot == bots[2]

\* C20: in play_game cur_bot is 0 when BLACK is to move and -1 when WHITE
\* is, always a valid index into bots; every BLACK move was chosen by
\* black_bot and every WHITE move by white_bot.
C20_BotInStepWithPlayer ==
    /\ cur_bot \in {0, -1}
    /\ cur_bot = 0 <=> cur_player = BLACK
    /\ cur_bot = -1 <=> cur_player = WHITE
    /\ bots_at(bots, cur_bot) =
          (IF cur_player = BLACK THEN black_bot ELSE white_bot)
    /\ last.op = "play_game" =>
          last.bot = (IF last.player = BLACK THEN black_bot ELSE white_bot)

\* C20 witness: two different bots, and BLACK to move again after a move of
\* each
C20_Witness ==
    /\ black_bot # white_bot
    /\ pc = "while"
    /\ last.op = "play_game"
    /\ last.player = WHITE
    /\ last.move # None
    /\ last.bot = white_bot
    /\ cur_player = BLACK
    /\ cur_bot = 0
    /\ nplaced >= 2

\* C19: the score v that _minimax returns on a window alpha < beta bounds
\* the unpruned minimax value m of the node: v = m when alpha < v < beta,
\* m <= v when v <= alpha, and m >= v when v >= beta.
C19_FailSoftBound ==
    last.op = "_minimax" =>
        LET v == last.eval
            m == FullMinimax(last.old, last.bot, last.player,
                             last.bot.depth)[1]
        IN  /\ ~ last.raised
            /\ (last.alpha < v /\ v < last.beta) => v = m
            /\ v <= last.alpha => m <= v
            /\ v >= last.beta => m >= v

\* C19 witness: a search of depth 2 whose score is at or above beta and
\* strictly below the minimax value
C19_Witness ==
    /\ last.op = "_minimax"
    /\ last.bot.depth = 2
    /\ last.beta < inf
    /\ last.eval >= last.beta
    /\ FullMinimax(last.old, last.bot, last.player, 2)[1] > last.eval

(***************************************************************************)
(* Properties of the evaluators (specification SpecEvaluate)               *)
(***************************************************************************)
CountOf(board, piece) ==
    Cardinality({c \in Index \X Index : board[c[1]][c[2]] = piece})

Corners == {<<0, 0>>, <<0, 7>>, <<7, 0>>, <<7, 7>>}

CornersOf(board, piece) ==
    Cardinality({c \in Corners : board[c[1]][c[2]] = piece})

Evaluated == last.op = "evaluate"

\* C11: GreedyBot.evaluate is black_count - white_count, CornersBot.evaluate
\* adds 25 for every BLACK corner and subtracts 25 for every WHITE corner,
\* and neither changes the board.
C11_EvaluateIsMaterialAndCorners ==
    Evaluated =>
        /\ board_now = last.old
        /\ last.bot.class = "GreedyBot" =>
              last.eval = CountOf(last.old, BLACK) - CountOf(last.old, WHITE)
        /\ last.bot.class = "CornersBot" =>
              last.eval = CountOf(last.old, BLACK) - CountOf(last.old, WHITE)
                          + 25 * (CornersOf(last.old, BLACK)
                                  - CornersOf(last.old, WHITE))

\* C11 witness: CornersBot.evaluate on a board with a corner taken, where
\* its score is not the material count
C11_Witness ==
    /\ Evaluated
    /\ last.bot.class = "CornersBot"
    /\ CornersOf(last.old, BLACK) + CornersOf(last.old, WHITE) >= 1
    /\ last.eval # CountOf(last.old, BLACK) - CountOf(last.old, WHITE)

====
